---- MODULE Spec2Model ----
(***************************************************************************)
(* Bayesian nonparametric spectral estimation: mogptk/bnse.py, BNSE().     *)
(*                                                                         *)
(* One call of BNSE(x, y, max_freq, n) is a straight line of statements;   *)
(* pc is the position of the call in that line.  A caller owns an x        *)
(* container (a Python list or a numpy ndarray) and a y sequence and calls *)
(* BNSE once (Spec), or once and then once more with the same arguments    *)
(* and the same x container (SpecAgain).                                   *)
(*                                                                         *)
(* Numbers.  Sample locations are held in half units (the integer 3 is     *)
(* the location 1.5), so that the halving np.median does on an even number *)
(* of points is exact.  Every other real is a pair <<num, den>> with       *)
(* num >= 0 and den >= 0: den = 0 is IEEE inf (num > 0) or nan (num = 0),  *)
(* which is what numpy/torch float division by zero produces.  sigma and   *)
(* noise are held by their squares (std is a square root) and the kernel   *)
(* variance by variance * pi^2, so that all of them stay rational.         *)
(***************************************************************************)
EXTENDS Integers, Sequences, FiniteSets

\* ---------------------------------------------------------------- bounds
MaxLen == 3      \* longest x or y the caller passes
MaxGrid == 3     \* largest frequency grid size n the caller passes

XValues == {0, 1, 3}    \* sample locations the caller draws x from
YValues == {0, 1}       \* observations the caller draws y from
None == "None"        \* no exception
NoFreq == <<>>        \* max_freq=None
NoResult == <<>>      \* the call has returned nothing
NaN == <<0, 0>>

\* ---------------------------------------------------------------- reals
Zero == <<0, 1>>
IsFinite(r) == r[2] > 0
IsNaN(r) == r[1] = 0 /\ r[2] = 0
IsInf(r) == r[1] > 0 /\ r[2] = 0
IsPos(r) == r[1] > 0
RDiv(a, b) == <<a[1] * b[2], a[2] * b[1]>>
RMul(a, b) == <<a[1] * b[1], a[2] * b[2]>>
\* IEEE equality: nan equals nothing, inf equals inf, otherwise cross-multiply
REq(a, b) ==
    /\ ~IsNaN(a) /\ ~IsNaN(b)
    /\ IF IsInf(a) \/ IsInf(b) THEN IsInf(a) /\ IsInf(b)
       ELSE a[1] * b[2] = b[1] * a[2]
RLt(a, b) ==
    /\ ~IsNaN(a) /\ ~IsNaN(b)
    /\ IF IsInf(a) THEN FALSE
       ELSE IF IsInf(b) THEN TRUE
       ELSE a[1] * b[2] < b[1] * a[2]

\* ---------------------------------------------------------------- sequences
SeqsUpTo(S, k) == UNION {[1..m -> S] : m \in 0..k}
RangeOf(s) == {s[i] : i \in 1..Len(s)}
MaxOf(s) == CHOOSE m \in RangeOf(s) : \A v \in RangeOf(s) : v <= m
MinOf(s) == CHOOSE m \in RangeOf(s) : \A v \in RangeOf(s) : m <= v

RECURSIVE Sum(_)
Sum(s) == IF s = <<>> THEN 0 ELSE Head(s) + Sum(Tail(s))

RECURSIVE Insert(_, _)
Insert(v, s) ==
    IF s = <<>> THEN <<v>>
    ELSE IF v <= Head(s) THEN <<v>> \o s
    ELSE <<Head(s)>> \o Insert(v, Tail(s))

RECURSIVE Sort(_)
Sort(s) == IF s = <<>> THEN <<>> ELSE Insert(Head(s), Sort(Tail(s)))

HasDuplicates(s) == \E i, j \in 1..Len(s) : i < j /\ s[i] = s[j]

\* ---------------------------------------------------------------- numpy / torch
\* np.median of a non-empty array (half units in, half units out)
median(xs) ==
    LET s == Sort(xs)
        N == Len(xs)
    IN  IF N % 2 = 1 THEN s[(N + 1) \div 2]
        ELSE (s[N \div 2] + s[N \div 2 + 1]) \div 2

\* centring that is not idempotent: half the largest location is subtracted
centered_by_half_max(xs) ==
    IF xs = <<>> THEN <<>> ELSE [i \in 1..Len(xs) |-> xs[i] - (MaxOf(xs) \div 2)]

\* x -= np.median(x): the centred values (np.median of an empty array is nan
\* and the subtraction then has nothing to act on)
centered(xs) ==
    IF xs = <<>> THEN <<>> ELSE [i \in 1..Len(xs) |-> xs[i] - median(xs)]

\* the spacing of len(x) evenly spread points: x_range/(len(x)-1)
x_dist_spacing(range, N) == <<range, 2 * (N - 1)>>

\* x_dist = x_range/len(x), x_range in half units
x_dist_of(range, N) == <<range, 2 * N>>

\* max_freq = 0.5/x_dist when the argument is None
default_max_freq(dist) == RDiv(<<1, 2>>, dist)

\* torch's y.std() squared: the unbiased sample variance, sum((y - mean)^2)/(N-1),
\* with mean = Sum(y)/N; a single observation gives 0/0 = nan
std_sq(ys) ==
    LET N == Len(ys)
        dev == [i \in 1..N |-> N * ys[i] - Sum(ys)]
    IN  <<Sum([i \in 1..N |-> dev[i] * dev[i]]), N * N * (N - 1)>>

\* sigma = y.std()
init_sigma_sq(ys) == std_sq(ys)
\* mean = 0.01
init_mean == <<1, 100>>
\* x_dist not squared
init_variance_unsquared(dist) == RDiv(<<1, 4>>, dist)
\* variance = 0.25 / np.pi**2 / x_dist**2, held as variance * pi^2
init_variance_pi2(dist) == RDiv(<<1, 4>>, RMul(dist, dist))
\* a noise floor: never less than a jitter of 1e-4 (squared: 1e-8)
init_noise_floor(ys) ==
    LET v == RDiv(std_sq(ys), <<100, 1>>)
    IN  IF IsFinite(v) /\ ~IsPos(v) THEN <<1, 100000000>> ELSE v
\* noise = y.std()/10.0, held squared
init_noise_sq(ys) == RDiv(std_sq(ys), <<100, 1>>)

\* a grid that leaves the end point out: start + i*(end - start)/n
linspace_no_endpoint(end, n) ==
    IF n = 0 THEN <<>>
    ELSE [i \in 1..n |-> <<end[1] * (i - 1), end[2] * n>>]

\* torch.linspace(0.0, max_freq, n): n < 0 raises, 0 steps give an empty tensor,
\* 1 step gives [start], otherwise start + i*(end - start)/(n - 1)
linspace(end, n) ==
    IF n = 0 THEN <<>>
    ELSE IF n = 1 THEN <<Zero>>
    ELSE [i \in 1..n |-> <<end[1] * (i - 1), end[2] * (n - 1)>>]

\* alpha = 2.0/x_range**2, x_range in half units
alpha_of(range) == <<8, range * range>>

\* ---------------------------------------------------------------- gpr (not in src/)
\* gpr.Exact(kernel, x, y): the observation set has len(x) = len(y)
Exact_accepts(xs, ys) == Len(xs) = Len(ys)

\* K = Kernel(x,x) + noise*I with K[i,j] = sigma^2 * exp(-2 pi^2 variance (xi-xj)^2)
\* * cos(2 pi mean (xi-xj)) is certainly not positive definite when a parameter
\* is inf or nan (entries are nan), or when noise = 0 and the kernel part is
\* singular (sigma = 0, or two equal sample locations give two equal rows)
GramNotPD(xs, p) ==
    \/ ~IsFinite(p.sigma_sq) \/ ~IsFinite(p.variance_pi2) \/ ~IsFinite(p.noise_sq)
    \/ ~IsFinite(p.mean)
    \/ /\ ~IsPos(p.noise_sq)
       /\ ~IsPos(p.sigma_sq) \/ HasDuplicates(xs)

\* ---------------------------------------------------------------- torch.optim.LBFGS
\* The optimizer and the floating-point factorization are deterministic functions
\* of what they are given, but not ones this model computes: the first time they
\* run on some (x, y, parameters) the outcome is chosen, and the same outcome is
\* reproduced whenever they run on the same (x, y, parameters) again.
Moves == {"keep", "refit"}
Outcomes ==
    {[train |-> "fail", move |-> "keep", chol |-> FALSE]} \cup
    {[train |-> "ok", move |-> m, chol |-> c] : m \in Moves, c \in BOOLEAN}

\* the parameters optimizer.step(model.loss) leaves: unchanged, or another
\* positive finite point of the parameter space
lbfgs_step(p, move) ==
    IF move = "keep" THEN p
    ELSE [sigma_sq |-> <<2 * p.sigma_sq[1], p.sigma_sq[2]>>,
          mean |-> <<1, 1>>,
          variance_pi2 |-> <<p.variance_pi2[1], 2 * p.variance_pi2[2]>>,
          noise_sq |-> <<p.noise_sq[1], 2 * p.noise_sq[2]>>]

\* ---------------------------------------------------------------- state
VARIABLES
    caller_x,   \* the caller's x container (half units): what the caller sees
    x_kind,     \* "list" or "ndarray": the type of the caller's x container
    caller_y,   \* the caller's y sequence
    x_before,   \* history: the caller's x before the first call
    args,       \* [max_freq, n] of the calls
    calls,      \* number of calls started
    budget,     \* number of calls the caller makes
    history,    \* outcomes [ret, err] of the finished calls before the current one
    numerics,   \* the outcome of the optimizer and factorization on a given input
    pc,         \* position of the current call
    phases,     \* the steps of the current call that have run, in order
    x,          \* local x
    x_range, x_dist, max_freq,
    params,     \* kernel.sigma, kernel.mean, kernel.variance, model.variance
    trained,    \* history: the parameters as optimizer.step left them
    chol_fail,  \* history: where a Cholesky factorization failed in this call
    w, alpha, Ltt, inference, psd,
    ret, err,   \* what the call returned or raised
    dataset,    \* MOSM: [Q, output_dims, input_dims, y_var] of the model and its dataset
    method,     \* MOSM: the method argument of init_parameters
    estimation, \* MOSM: what the spectral estimation returned, per channel and component
    kernel,     \* MOSM: self.model.kernel, per component [mean, variance, magnitude_sq]
    assigned,   \* MOSM: history of the parameters assign() was called on, in order
    log,        \* MOSM: the warnings logged
    mosm_pc,    \* MOSM: position of the init_parameters call
    mosm_err    \* MOSM: what init_parameters raised

vars == <<caller_x, x_kind, caller_y, x_before, args, calls, budget, history, numerics, pc,
          phases, x, x_range, x_dist, max_freq, params, trained, chol_fail, w, alpha,
          Ltt, inference, psd, ret, err,
          dataset, method, estimation, kernel, assigned, log, mosm_pc, mosm_err>>

mosmVars == <<dataset, method, estimation, kernel, assigned, log, mosm_pc, mosm_err>>
callerVars == <<x_kind, caller_y, x_before, args, calls, budget, history, mosmVars>>
locals == <<x, x_range, x_dist, max_freq, params, trained, w, alpha, Ltt, inference, psd>>

GridSizes == -1..MaxGrid
\* locals that are not bound yet
NoParams == [sigma_sq |-> NaN, mean |-> NaN, variance_pi2 |-> NaN, noise_sq |-> NaN]
NoInference == [kernels |-> <<>>, a |-> <<>>, b |-> <<>>, c |-> <<>>, moments |-> <<>>]
MaxFreqArgs == {NoFreq, <<0, 1>>, <<1, 1>>}

\* no MOSM model has been built
NoModel ==
    /\ dataset = [Q |-> 0, output_dims |-> 0, input_dims |-> 0, y_var |-> <<>>]
    /\ method = None
    /\ estimation = <<>>
    /\ kernel = <<>>
    /\ assigned = <<>>
    /\ log = <<>>
    /\ mosm_pc = "none"
    /\ mosm_err = None

\* the caller holds x and y and has not called yet
Caller ==
    /\ \E raw \in SeqsUpTo(XValues, MaxLen) :
          caller_x = [i \in 1..Len(raw) |-> 2 * raw[i]]
    /\ x_kind \in {"list", "ndarray"}
    /\ caller_y \in SeqsUpTo(YValues, MaxLen)
    /\ Len(caller_y) \in {Len(caller_x), Len(caller_x) - 1}   \* matching, or one short
    /\ x_before = caller_x
    /\ args = [max_freq |-> NoFreq, n |-> 0]
    /\ calls = 0
    /\ history = <<>>
    /\ numerics = <<>>
    /\ pc = "caller"
    /\ phases = <<>>
    /\ x = <<>> /\ x_range = 0 /\ x_dist = NaN /\ max_freq = NaN
    /\ params = NoParams /\ trained = NoParams /\ chol_fail = "none"
    /\ w = <<>> /\ alpha = NaN /\ Ltt = <<>> /\ inference = NoInference /\ psd = <<>>
    /\ ret = NoResult /\ err = None
    /\ NoModel

\* one call
Init == Caller /\ budget = 1

\* one call, and then a second one
InitAgain == Caller /\ budget = 2

\* an exception leaves the call: nothing is returned
Raise(kind) ==
    /\ pc' = "done"
    /\ err' = kind
    /\ ret' = NoResult

Step(done, next) ==
    /\ phases' = Append(phases, done)
    /\ pc' = next
    /\ UNCHANGED <<ret, err>>

\* the caller calls BNSE(x, y, max_freq, n); a later call passes the same
\* arguments and the same x container
Call ==
    /\ pc \in {"caller", "done"}
    /\ calls < budget
    /\ IF calls = 0
       THEN \E mf \in MaxFreqArgs, n \in GridSizes : args' = [max_freq |-> mf, n |-> n]
       ELSE args' = args
    /\ history' = IF pc = "done" THEN Append(history, [ret |-> ret, err |-> err])
                  ELSE history
    /\ calls' = calls + 1
    /\ pc' = "center"
    /\ phases' = <<>>
    /\ x' = <<>> /\ x_range' = 0 /\ x_dist' = NaN /\ max_freq' = NaN
    /\ params' = NoParams /\ trained' = NoParams /\ chol_fail' = "none"
    /\ w' = <<>> /\ alpha' = NaN /\ Ltt' = <<>> /\ inference' = NoInference /\ psd' = <<>>
    /\ ret' = NoResult /\ err' = None
    /\ UNCHANGED <<caller_x, x_kind, caller_y, x_before, budget, numerics, mosmVars>>

\* x -= np.median(x): in place on an ndarray (the caller's array changes); a list
\* has no in-place subtraction, so the local name is rebound to a new array and the
\* caller's list is left alone
Center ==
    /\ pc = "center"
    /\ x' = centered(caller_x)
    /\ caller_x' = IF x_kind = "ndarray" THEN centered(caller_x) ELSE caller_x
    /\ Step("center", "range")
    /\ UNCHANGED <<callerVars, numerics, chol_fail, x_range, x_dist, max_freq, params,
                   trained, w, alpha, Ltt, inference, psd>>

\* x_range = np.max(x)-np.min(x); x_dist = x_range/len(x); the default max_freq.
\* np.max of an empty array raises ValueError
Range ==
    /\ pc = "range"
    /\ IF x = <<>>
       THEN /\ Raise("ValueError")
            /\ UNCHANGED <<phases, x_range, x_dist, max_freq>>
       ELSE /\ x_range' = MaxOf(x) - MinOf(x)
            /\ x_dist' = x_dist_of(x_range', Len(x))
            /\ max_freq' = IF args.max_freq = NoFreq THEN default_max_freq(x_dist')
                           ELSE args.max_freq
            /\ Step("range", "construct")
    /\ UNCHANGED <<caller_x, callerVars, numerics, chol_fail, x, params, trained, w,
                   alpha, Ltt, inference, psd>>

\* the tensors, kernel = gpr.SpectralKernel(), model = gpr.Exact(kernel, x, y)
Construct ==
    /\ pc = "construct"
    /\ IF Exact_accepts(x, caller_y)
       THEN Step("construct", "init")
       ELSE Raise("PreconditionError") /\ UNCHANGED phases
    /\ UNCHANGED <<caller_x, callerVars, numerics, chol_fail, locals>>

\* the four assign() calls
InitParams ==
    /\ pc = "init"
    /\ params' = [sigma_sq |-> init_sigma_sq(caller_y),
                  mean |-> init_mean,
                  variance_pi2 |-> init_variance_pi2(x_dist),
                  noise_sq |-> init_noise_sq(caller_y)]
    /\ Step("init", "train")
    /\ UNCHANGED <<caller_x, callerVars, numerics, chol_fail, x, x_range, x_dist,
                   max_freq, trained, w, alpha, Ltt, inference, psd>>

\* optimizer.step(model.loss): LBFGS evaluates the loss at the initial parameters
\* first; a loss evaluation whose Cholesky factorization fails raises out of the call
Train ==
    /\ pc = "train"
    /\ LET key == [x |-> x, y |-> caller_y, p |-> params] IN
       IF GramNotPD(x, params)
       THEN /\ chol_fail' = "train"
            /\ Raise("NumericalError")
            /\ UNCHANGED <<phases, params, trained, numerics>>
       ELSE \E o \in Outcomes :
            /\ IF numerics # <<>> /\ numerics[1].key = key THEN numerics[1].o = o ELSE TRUE
            /\ numerics' = <<[key |-> key, o |-> o]>>
            /\ IF o.train = "fail"
               THEN /\ chol_fail' = "train"
                    /\ Raise("NumericalError")
                    /\ UNCHANGED <<phases, params, trained>>
               ELSE /\ params' = lbfgs_step(params, o.move)
                    /\ trained' = params'
                    /\ Step("train", "grid")
                    /\ UNCHANGED chol_fail
    /\ UNCHANGED <<caller_x, callerVars, x, x_range, x_dist, max_freq, w, alpha, Ltt,
                   inference, psd>>

\* alpha = 2.0/x_range**2; w = torch.linspace(0.0, max_freq, n): a negative number
\* of steps raises RuntimeError
Grid ==
    /\ pc = "grid"
    /\ IF args.n < 0
       THEN Raise("RuntimeError") /\ UNCHANGED <<phases, w, alpha>>
       ELSE /\ alpha' = alpha_of(x_range)
            /\ w' = linspace(max_freq, args.n)
            /\ Step("grid", "cholesky")
    /\ UNCHANGED <<caller_x, callerVars, numerics, chol_fail, x, x_range, x_dist,
                   max_freq, params, trained, Ltt, inference, psd>>

\* a factorization that falls back to a jittered matrix instead of raising
Factor_fallback ==
    /\ pc = "cholesky"
    /\ IF GramNotPD(x, params) \/ ~numerics[1].o.chol
       THEN /\ chol_fail' = "inference"
            /\ Ltt' = <<[x |-> x, params |-> [params EXCEPT !.noise_sq = <<1, 1>>]]>>
       ELSE /\ Ltt' = <<[x |-> x, params |-> params]>>
            /\ UNCHANGED chol_fail
    /\ Step("cholesky", "kernels")
    /\ UNCHANGED <<caller_x, callerVars, numerics, x, x_range, x_dist, max_freq,
                   params, trained, w, alpha, inference, psd>>

\* a factorization of the Gram matrix of the parameters as they were initialized,
\* not as the optimizer left them
Factor_stale ==
    /\ pc = "cholesky"
    /\ IF GramNotPD(x, params) \/ ~numerics[1].o.chol
       THEN /\ chol_fail' = "inference"
            /\ Raise("NumericalError")
            /\ UNCHANGED <<phases, Ltt>>
       ELSE /\ Ltt' = <<[x |-> x, params |-> numerics[1].key.p]>>
            /\ Step("cholesky", "kernels")
            /\ UNCHANGED chol_fail
    /\ UNCHANGED <<caller_x, callerVars, numerics, x, x_range, x_dist, max_freq,
                   params, trained, w, alpha, inference, psd>>

\* Ktt = kernel(x) + model.variance()*I; Ltt = torch.linalg.cholesky(Ktt), which
\* raises when Ktt is not positive definite.  Ltt is held as the (x, parameters)
\* whose Gram matrix it factors
Factor ==
    /\ pc = "cholesky"
    /\ IF GramNotPD(x, params) \/ ~numerics[1].o.chol
       THEN /\ chol_fail' = "inference"
            /\ Raise("NumericalError")
            /\ UNCHANGED <<phases, Ltt>>
       ELSE /\ Ltt' = <<[x |-> x, params |-> params]>>
            /\ Step("cholesky", "kernels")
            /\ UNCHANGED chol_fail
    /\ UNCHANGED <<caller_x, callerVars, numerics, x, x_range, x_dist, max_freq,
                   params, trained, w, alpha, inference, psd>>

\* Kff, Pff, Kff_real, Kff_imag and Ktf_real, Ktf_imag from the kernel's current
\* parameters, alpha and the grid
FreqKernels ==
    /\ pc = "kernels"
    /\ inference' = [inference EXCEPT
                       !.kernels = <<[params |-> params, alpha |-> alpha, w |-> w]>>]
    /\ Step("kernels", "solve")
    /\ UNCHANGED <<caller_x, callerVars, numerics, chol_fail, x, x_range, x_dist,
                   max_freq, params, trained, w, alpha, Ltt, psd>>

\* a = cholesky_solve(y, Ltt); b, c = triangular_solve(Ktf_real / Ktf_imag, Ltt)
Solve ==
    /\ pc = "solve"
    /\ inference' = [inference EXCEPT
                       !.a = <<[L |-> Ltt[1], rhs |-> caller_y]>>,
                       !.b = <<[L |-> Ltt[1], rhs |-> "Ktf_real"]>>,
                       !.c = <<[L |-> Ltt[1], rhs |-> "Ktf_imag"]>>]
    /\ Step("solve", "posterior")
    /\ UNCHANGED <<caller_x, callerVars, numerics, chol_fail, x, x_range, x_dist,
                   max_freq, params, trained, w, alpha, Ltt, psd>>

\* Kff = kernel_ff(w, w, ...), Pff = kernel_ff(w, -w, ...), as terms
Kff == <<"kernel_ff", "w", "w">>
Pff == <<"kernel_ff", "w", "-w">>
\* Kff_real = 0.5 * (Kff + Pff); Kff_imag = 0.5 * (Kff - Pff)
Kff_real == [half |-> "+", of |-> <<Kff, Pff>>]
Kff_imag == [half |-> "-", of |-> <<Kff, Pff>>]

\* mu_real = Ktf_real.T.mm(a); mu_imag = Ktf_imag.T.mm(a);
\* var_real = Kff_real - b.T.mm(b); var_imag = Kff_imag - c.T.mm(c), as terms
moments ==
    [mu_real |-> [mm |-> <<"Ktf_real.T", "a">>],
     mu_imag |-> [mm |-> <<"Ktf_imag.T", "a">>],
     var_real |-> [minuend |-> Kff_real, minus |-> [mm |-> <<"b.T", "b">>]],
     var_imag |-> [minuend |-> Kff_imag, minus |-> [mm |-> <<"c.T", "c">>]]]

\* the combination the source asks about: var_real + var_imag on the diagonal
psd_at_var_imag(i) ==
    [squares |-> {<<"mu_real", i>>, <<"mu_imag", i>>},
     diagonal |-> <<<<"var_real", i, i>>, <<"var_imag", i, i>>>>,
     a |-> inference.a[1],
     kernels |-> [params |-> inference.kernels[1].params,
                  alpha |-> inference.kernels[1].alpha],
     f |-> w[i]]

\* mu_real, mu_imag, var_real, var_imag and
\* psd = mu_real**2 + mu_imag**2 + (var_real + var_real).diagonal(): one value per
\* grid frequency, held as the terms it is the sum of and what they were computed
\* from: the solve a (the factor of the Gram matrix of x, and y), the kernels
\* (their parameters and alpha), and the frequency w[i]
psd_at(i) ==
    [squares |-> {<<"mu_real", i>>, <<"mu_imag", i>>},
     diagonal |-> <<<<"var_real", i, i>>, <<"var_real", i, i>>>>,
     a |-> inference.a[1],
     kernels |-> [params |-> inference.kernels[1].params,
                  alpha |-> inference.kernels[1].alpha],
     f |-> w[i]]

Posterior ==
    /\ pc = "posterior"
    /\ inference' = [inference EXCEPT !.moments = <<moments>>]
    /\ psd' = [i \in 1..Len(w) |-> psd_at(i)]
    /\ Step("posterior", "return")
    /\ UNCHANGED <<caller_x, callerVars, numerics, chol_fail, x, x_range, x_dist,
                   max_freq, params, trained, w, alpha, Ltt>>

\* return w, psd
Return ==
    /\ pc = "return"
    /\ ret' = <<w, psd>>
    /\ pc' = "done"
    /\ UNCHANGED <<caller_x, callerVars, numerics, chol_fail, locals, phases, err>>

Next ==
    \/ Call
    \/ Center
    \/ Range
    \/ Construct
    \/ InitParams
    \/ Train
    \/ Grid
    \/ Factor
    \/ FreqKernels
    \/ Solve
    \/ Posterior
    \/ Return

Spec == Init /\ [][Next]_vars

SpecAgain == InitAgain /\ [][Next]_vars

\* ================================================================ MOSM.init_parameters
MaxQ == 2           \* most components Q of the mixture
MaxChannels == 2    \* most output channels of the dataset
MaxInputDims == 1   \* most input dimensions of a channel

\* the names bound in the module namespace of mosm.py: its imports and its class
module_names ==
    {"np", "model", "DataSet", "_estimate_from_sm", "MultiOutputSpectralKernel",
     "MixtureKernel", "plot_spectrum", "mpl", "plt", "MOSM"}

\* values of the method argument: the three the code names, and another string
Methods == {"BNSE", "LS", "SM", "Adam"}

\* one estimated peak (or fitted SM component) of one channel: amplitude/weight,
\* position and width, averaged over the input dimensions
Peaks ==
    {[amplitude |-> 0, mean |-> 1, variance |-> 1],
     [amplitude |-> 1, mean |-> 2, variance |-> 1]}

\* y.var() of a channel's training data
YVars == {1, 2}

\* the kernel parameters as the constructor left them
InitialKernel(Q, D) ==
    [q \in 1..Q |-> [mean |-> [i \in 1..D |-> 0],
                     variance |-> [i \in 1..D |-> 0],
                     magnitude_sq |-> [i \in 1..D |-> Zero]]]

\* magnitude[i,:].sum()
RowSum(est, i, Q) == Sum([q \in 1..Q |-> est[i][q].amplitude])

\* (np.sqrt(magnitude[i,q] / magnitude[i,:].sum() * y.var()) * 2) squared;
\* 0/0 is nan
normalized_sq(est, i, q, Q, y_var) ==
    RMul(RDiv(<<est[i][q].amplitude, 1>>, <<RowSum(est, i, Q), 1>>), <<4 * y_var[i], 1>>)

\* 4 + 20 * (max(input_dims) - 1)
variance_scale(input_dims) == 4 + 20 * (input_dims - 1)

\* BNSE has not been called and is not called
NoCall ==
    /\ caller_x = <<>> /\ x_kind = "list" /\ caller_y = <<>> /\ x_before = <<>>
    /\ args = [max_freq |-> NoFreq, n |-> 0]
    /\ calls = 0 /\ budget = 0 /\ history = <<>> /\ numerics = <<>>
    /\ pc = "caller" /\ phases = <<>>
    /\ x = <<>> /\ x_range = 0 /\ x_dist = NaN /\ max_freq = NaN
    /\ params = NoParams /\ trained = NoParams /\ chol_fail = "none"
    /\ w = <<>> /\ alpha = NaN /\ Ltt = <<>> /\ inference = NoInference /\ psd = <<>>
    /\ ret = NoResult /\ err = None

bnseVars == <<caller_x, x_kind, caller_y, x_before, args, calls, budget, history, numerics,
              pc, phases, locals, chol_fail, ret, err>>

\* a MOSM model has been built over a dataset; init_parameters has not been called
InitMosm ==
    /\ NoCall
    /\ \E Q \in 1..MaxQ, D \in 1..MaxChannels, d \in 1..MaxInputDims :
          /\ \E yv \in [1..D -> YVars] :
                dataset = [Q |-> Q, output_dims |-> D, input_dims |-> d, y_var |-> yv]
          /\ kernel = InitialKernel(Q, D)
    /\ method = None
    /\ estimation = <<>>
    /\ assigned = <<>>
    /\ log = <<>>
    /\ mosm_pc = "built"
    /\ mosm_err = None

\* init_parameters(method): the branch is chosen by method
init_parameters ==
    /\ mosm_pc = "built"
    /\ \E m \in Methods :
          /\ method' = m
          /\ mosm_pc' = IF m \in {"BNSE", "LS"} THEN "estimate"
                        ELSE IF m = "SM" THEN "sm"
                        ELSE "reject"
    /\ UNCHANGED <<bnseVars, dataset, estimation, kernel, assigned, log, mosm_err>>

\* dataset.get_bnse_estimation(Q) or dataset.get_lombscargle_estimation(Q): either
\* no peaks, or Q peaks for every channel
Estimate ==
    /\ mosm_pc = "estimate"
    /\ \/ estimation' = <<>>
       \/ estimation' \in [1..dataset.output_dims -> [1..dataset.Q -> Peaks]]
    /\ mosm_pc' = IF Len(estimation') = 0 THEN "no_peaks" ELSE "mean_variance"
    /\ UNCHANGED <<bnseVars, dataset, method, kernel, assigned, log, mosm_err>>

\* len(amplitudes) == 0: logger.warning(...) and return; looking up a name that the
\* module does not bind raises NameError before anything is logged
NoPeaks ==
    /\ mosm_pc = "no_peaks"
    /\ IF "logger" \in module_names
       THEN /\ log' = Append(log, <<"warning", method>>)
            /\ mosm_err' = None
       ELSE /\ log' = log
            /\ mosm_err' = "NameError"
    /\ mosm_pc' = "done"
    /\ UNCHANGED <<bnseVars, dataset, method, estimation, kernel, assigned>>

\* for q: kernel[q].mean.assign(means * 2 pi), kernel[q].variance.assign(variances *
\* scale); the mean is held in units of pi
AssignMeanVariance ==
    /\ mosm_pc = "mean_variance"
    /\ kernel' = [q \in 1..dataset.Q |->
                    [kernel[q] EXCEPT
                       !.mean = [i \in 1..dataset.output_dims |->
                                    2 * estimation[i][q].mean],
                       !.variance = [i \in 1..dataset.output_dims |->
                                        estimation[i][q].variance
                                        * variance_scale(dataset.input_dims)]]]
    /\ assigned' = assigned \o <<"mean", "variance">>
    /\ mosm_pc' = "magnitude"
    /\ UNCHANGED <<bnseVars, dataset, method, estimation, log, mosm_err>>

\* the magnitudes are normalized per channel (a zero row sum is not checked here)
\* and assigned
AssignMagnitude ==
    /\ mosm_pc = "magnitude"
    /\ kernel' = [q \in 1..dataset.Q |->
                    [kernel[q] EXCEPT
                       !.magnitude_sq = [i \in 1..dataset.output_dims |->
                                            normalized_sq(estimation, i, q, dataset.Q,
                                                          dataset.y_var)]]]
    /\ assigned' = Append(assigned, "magnitude")
    /\ mosm_pc' = "done"
    /\ UNCHANGED <<bnseVars, dataset, method, estimation, log, mosm_err>>

\* method 'SM': the fitted SM kernels give weight, mean and scale; a channel whose
\* weights sum to zero raises before anything is assigned
EstimateFromSM ==
    /\ mosm_pc = "sm"
    /\ estimation' \in [1..dataset.output_dims -> [1..dataset.Q -> Peaks]]
    /\ IF \E i \in 1..dataset.output_dims : RowSum(estimation', i, dataset.Q) = 0
       THEN /\ mosm_err' = "Exception"
            /\ UNCHANGED <<kernel, assigned>>
       ELSE /\ kernel' = [q \in 1..dataset.Q |->
                            [magnitude_sq |-> [i \in 1..dataset.output_dims |->
                                                  normalized_sq(estimation', i, q,
                                                                dataset.Q, dataset.y_var)],
                             mean |-> [i \in 1..dataset.output_dims |->
                                          estimation'[i][q].mean],
                             variance |-> [i \in 1..dataset.output_dims |->
                                              estimation'[i][q].variance * 2]]]
            /\ assigned' = assigned \o <<"magnitude", "mean", "variance">>
            /\ mosm_err' = None
    /\ mosm_pc' = "done"
    /\ UNCHANGED <<bnseVars, dataset, method, log>>

\* any other method: ValueError
RejectMethod ==
    /\ mosm_pc = "reject"
    /\ mosm_err' = "ValueError"
    /\ mosm_pc' = "done"
    /\ UNCHANGED <<bnseVars, dataset, method, estimation, kernel, assigned, log>>

NextMosm ==
    \/ init_parameters
    \/ Estimate
    \/ NoPeaks
    \/ AssignMeanVariance
    \/ AssignMagnitude
    \/ EstimateFromSM
    \/ RejectMethod

SpecMosm == InitMosm /\ [][NextMosm]_vars

\* ================================================================ properties
Did(ph) == \E i \in 1..Len(phases) : phases[i] = ph
Returned == pc = "done" /\ ret # NoResult
RAdd(a, b) == <<a[1] * b[2] + b[1] * a[2], a[2] * b[2]>>
IsPrefix(s, t) == Len(s) <= Len(t) /\ \A i \in 1..Len(s) : s[i] = t[i]
PhaseOrder == <<"center", "range", "construct", "init", "train", "grid",
                "cholesky", "kernels", "solve", "posterior">>

\* the inputs section 7 of the specification calls malformed
Malformed ==
    \/ Len(x_before) # Len(caller_y)
    \/ Len(x_before) < 2
    \/ args.n <= 0

\* ---------------------------------------------------------------- C1
\* C1: a call with malformed inputs (len(x) # len(y), fewer than 2 points, or
\* n <= 0) has run no step (no centring, construction, initialization, loss
\* evaluation) and, once it has ended, has ended with PreconditionError.
C1_RejectedBeforeAnyComputation ==
    (calls >= 1 /\ Malformed) =>
        /\ phases = <<>>
        /\ caller_x = x_before
        /\ pc = "done" => err = "PreconditionError"

\* ---------------------------------------------------------------- C2
GridLinear(f, n, top) ==
    /\ Len(f) = n
    /\ REq(f[1], Zero)
    /\ REq(f[n], top)
    /\ \A i \in 1..(n - 1) : RLt(f[i], f[i + 1])
    /\ \A i \in 1..(n - 2) : REq(RAdd(f[i], f[i + 2]), RMul(<<2, 1>>, f[i + 1]))

\* C2 as claimed: every call that returns with n >= 1 returns n frequencies, the
\* first 0, the last max_frequency, strictly increasing and linearly spaced.
C2_GridForEveryN ==
    (Returned /\ args.n >= 1) => GridLinear(ret[1], args.n, max_freq)

\* C2 as amended: the same for n >= 2 and a positive finite max_frequency.
C2_GridForTwoOrMore ==
    (Returned /\ args.n >= 2 /\ IsPos(max_freq) /\ IsFinite(max_freq)) =>
        GridLinear(ret[1], args.n, max_freq)

C2_Witness ==
    Returned /\ args.n = 3 /\ args.max_freq = NoFreq /\ x_before = <<0, 2, 6>>

\* ---------------------------------------------------------------- C3
\* the median of the spacings between consecutive (sorted) sample locations,
\* as a real
median_spacing(xs) ==
    LET s == Sort(xs)
        d == Sort([i \in 1..(Len(xs) - 1) |-> s[i + 1] - s[i]])
        M == Len(d)
    IN  IF M % 2 = 1 THEN <<d[(M + 1) \div 2], 2>>
        ELSE <<d[M \div 2] + d[M \div 2 + 1], 4>>

\* C3 as claimed: with max_freq omitted and at least 2 points, the maximum
\* frequency is 0.5/d, d the median spacing of the centred x.
C3_NyquistOfMedianSpacing ==
    (Did("range") /\ args.max_freq = NoFreq /\ Len(x) >= 2) =>
        REq(max_freq, RDiv(<<1, 2>>, median_spacing(x)))

\* C3 as amended: with max_freq omitted and at least 1 point, the maximum
\* frequency is 0.5*len(x)/(max(x) - min(x)), infinite when all locations are equal.
C3_NyquistOfRangeOverLen ==
    (Did("range") /\ args.max_freq = NoFreq) =>
        LET span == MaxOf(x_before) - MinOf(x_before)
        IN  IF span = 0 THEN IsInf(max_freq)
            ELSE REq(max_freq, <<Len(x_before), span>>)

C3_Witness ==
    Did("range") /\ args.max_freq = NoFreq /\ x_before = <<0, 6, 2>> /\ calls = 1

\* ---------------------------------------------------------------- C5
\* C5: once a Cholesky factorization has failed, in training or in the inference
\* pass, the call has ended with NumericalError, has returned nothing, has run no
\* later step and holds no substituted factor.
C5_FactorizationFailurePropagates ==
    (chol_fail # "none") =>
        /\ pc = "done"
        /\ err = "NumericalError"
        /\ ret = NoResult
        /\ Ltt = <<>> /\ psd = <<>>
        /\ IF chol_fail = "train" THEN phases = SubSeq(PhaseOrder, 1, 4)
           ELSE phases = SubSeq(PhaseOrder, 1, 6)

C5_Witness ==
    chol_fail = "inference" /\ pc = "done" /\ err = "NumericalError" /\ calls = 1

\* ---------------------------------------------------------------- C6
Degenerate == x_before = <<0, 0, 0>> /\ caller_y = <<1, 1, 1>>

\* C6: for x = [0,0,0], y = [1,1,1] the noise is initialized to std(y)/10 = 0 (no
\* floor), the call never gets past training, returns nothing, and ends with
\* NumericalError from a failed factorization.
C6_DegenerateInputRaises ==
    Degenerate =>
        /\ ret = NoResult
        /\ \A i \in 1..Len(history) : history[i].ret = NoResult
        /\ Did("init") => REq(params.noise_sq, Zero)
        /\ ~Did("train")
        /\ pc = "done" => (err = "NumericalError" /\ chol_fail = "train")

C6_Witness ==
    Degenerate /\ pc = "done" /\ err = "NumericalError" /\ Did("init")

\* ---------------------------------------------------------------- C7
\* sum((y - mean)^2)/(N-1) = (N*sum(y^2) - sum(y)^2) / (N*(N-1))
sample_variance(ys) ==
    LET N == Len(ys)
    IN  <<N * Sum([i \in 1..N |-> ys[i] * ys[i]]) - Sum(ys) * Sum(ys), N * (N - 1)>>

ValidInput == Len(x_before) = Len(caller_y) /\ Len(x_before) >= 2
BeforeFirstStep == pc = "train"
Constant(ys) == \A i, j \in 1..Len(ys) : ys[i] = ys[j]

\* C7 as claimed: before the first optimizer step sigma = std(y), mean = 0.01,
\* variance = 0.25/(pi^2 dx^2) with dx the median spacing, noise = std(y)/10, and
\* for every valid input sigma, variance and noise are positive.
C7_InitFromMedianSpacing ==
    (BeforeFirstStep /\ ValidInput) =>
        /\ REq(params.sigma_sq, sample_variance(caller_y))
        /\ REq(params.mean, <<1, 100>>)
        /\ REq(params.variance_pi2,
               RDiv(<<1, 4>>, RMul(median_spacing(x), median_spacing(x))))
        /\ REq(params.noise_sq, RDiv(sample_variance(caller_y), <<100, 1>>))
        /\ IsPos(params.sigma_sq) /\ IsPos(params.variance_pi2) /\ IsPos(params.noise_sq)

\* C7 as amended: dx is (max(x) - min(x))/len(x); sigma and noise are positive
\* exactly when y is not constant, and variance is positive and finite exactly
\* when the locations are not all equal (it is infinite when they are).
C7_InitFromRangeOverLen ==
    (BeforeFirstStep /\ ValidInput) =>
        LET span == MaxOf(x_before) - MinOf(x_before)
            N == Len(x_before)
        IN  /\ REq(params.sigma_sq, sample_variance(caller_y))
            /\ REq(params.mean, <<1, 100>>)
            /\ IF span = 0 THEN IsInf(params.variance_pi2)
               ELSE REq(params.variance_pi2, <<N * N, span * span>>)
            /\ REq(params.noise_sq, RDiv(sample_variance(caller_y), <<100, 1>>))
            /\ IsPos(params.sigma_sq) <=> ~Constant(caller_y)
            /\ IsPos(params.noise_sq) <=> ~Constant(caller_y)
            /\ (IsPos(params.variance_pi2) /\ IsFinite(params.variance_pi2)) <=> span # 0

C7_Witness ==
    BeforeFirstStep /\ x_before = <<0, 2, 6>> /\ caller_y = <<0, 1, 1>>

\* ---------------------------------------------------------------- C8
\* C8: the caller's x and y hold the values the caller passed in, during and after
\* every call.
C8_CallerArraysUnchanged == caller_x = x_before

C10_PhaseOrderAndFreshFactor ==
    /\ IsPrefix(phases, PhaseOrder)
    /\ Did("train") => params = trained
    /\ Ltt # <<>> => Ltt[1] = [x |-> x, params |-> trained]
    /\ Did("solve") =>
          /\ inference.a[1].L = [x |-> x, params |-> trained]
          /\ inference.b[1].L = [x |-> x, params |-> trained]
          /\ inference.c[1].L = [x |-> x, params |-> trained]
    /\ Returned => phases = PhaseOrder

C10_Witness ==
    /\ Returned /\ phases = PhaseOrder
    /\ numerics[1].o.move = "refit"
    /\ trained # numerics[1].key.p

\* ---------------------------------------------------------------- C11
\* C11: a call that returns returns as many psd values as frequencies; the i-th
\* value is mu_real[i]^2 + mu_imag[i]^2 + var_real[i,i] + var_real[i,i] and carries
\* the i-th frequency; var_real is Kff_real - b^T b with b the solve of Ktf_real and
\* Kff_real = 0.5*(Kff(w,w) + Kff(w,-w)); var_imag, from Kff_imag =
\* 0.5*(Kff(w,w) - Kff(w,-w)), is no term of any value.
C11_PsdCombination ==
    Returned =>
        /\ Len(ret[2]) = Len(ret[1])
        /\ Len(ret[1]) = args.n
        /\ \A i \in 1..Len(ret[2]) :
              /\ ret[2][i].f = ret[1][i]
              /\ ret[2][i].squares = {<<"mu_real", i>>, <<"mu_imag", i>>}
              /\ ret[2][i].diagonal = <<<<"var_real", i, i>>, <<"var_real", i, i>>>>
              /\ \A k \in 1..Len(ret[2][i].diagonal) : ret[2][i].diagonal[k][1] # "var_imag"
        /\ inference.moments[1].var_real.minuend = [half |-> "+", of |-> <<Kff, Pff>>]
        /\ inference.moments[1].var_real.minus = [mm |-> <<"b.T", "b">>]
        /\ inference.moments[1].var_imag.minuend = [half |-> "-", of |-> <<Kff, Pff>>]
        /\ inference.b[1].rhs = "Ktf_real"

C11_Witness ==
    Returned /\ args.n = 3 /\ Len(ret[2]) = 3 /\ x_before = <<0, 6, 2>>

\* no kernel parameter has been assigned since construction
KernelUntouched ==
    /\ assigned = <<>>
    /\ kernel = InitialKernel(dataset.Q, dataset.output_dims)

\* C12: init_parameters with method 'BNSE' or 'LS' and an estimation without peaks
\* logs a warning and returns normally, assigning no kernel parameter; with a method
\* other than 'BNSE', 'LS' or 'SM' it raises ValueError, assigning no kernel parameter
C12_NoPeaksWarnsAndReturns ==
    mosm_pc = "done" =>
        /\ (method \in {"BNSE", "LS"} /\ Len(estimation) = 0) =>
              /\ mosm_err = None
              /\ log = <<<<"warning", method>>>>
              /\ KernelUntouched
        /\ method \notin {"BNSE", "LS", "SM"} =>
              /\ mosm_err = "ValueError"
              /\ KernelUntouched


====
